---- MODULE Spec2Model ----
(***************************************************************************)
(* Model of youtube_downloader.py: the identifier resolver, the language    *)
(* selector, the metadata and transcript clients, the date filter, the      *)
(* transcript batch loop, the file-name sanitizer and the export section,   *)
(* together with the Streamlit session state they read and write.           *)
(*                                                                          *)
(* Strings are sequences of tokens.  A token stands for a fixed piece of    *)
(* text (table below); the tokens are chosen so that no marker the code   *)
(* searches for ("youtube.com/watch?v=", "v=", "&", "youtu.be/", "?") can   *)
(* occur across a token boundary, hence substring search and split on the   *)
(* token sequence agree with the ones on the text.                          *)
(***************************************************************************)
EXTENDS Integers, Sequences, FiniteSets, TLC

\* ------------------------------------------------------------------ bounds
MaxIds == 2        \* longest id list / link list a resolution yields (session specification)
MaxWindow == 3     \* longest id list a batch run starts from (batch specification)
MaxTok == 5        \* longest raw input string (in tokens) given to extract_video_id
MaxLangs == 2      \* longest language list given to check_transcript_availability
MaxPad == 2        \* ids beyond the date filter's cap in its longest input
MaxPeriod == 2     \* period of the answer pattern in the date filter's inputs
MaxTitle == 3      \* longest short title given to sanitize_filename
MaxTail == 2       \* longest tail of a title about max_length long
MaxRecords == 2    \* most records held when the exports are rendered
MaxRenders == 2    \* script runs that render the exports

\* ------------------------------------------------------------------ strings
\* token      text                    length
\* "W"        youtube.com/watch       17
\* "Q"        ?                       1
\* "V"        v=                      2
\* "N"        &                       1
\* "S"        youtu.be/               9
\* "A","B"    dQw4w9WgXcQ, xvFZjo5PgG0 (two 11-character video ids)   11
\* "x"        one ordinary character  1
Tokens == {"W", "Q", "V", "N", "S", "A", "B", "x"}

TokLen(t) ==
  CASE t = "W" -> 17
    [] t = "S" -> 9
    [] t = "V" -> 2
    [] t \in {"A", "B"} -> 11
    [] OTHER -> 1

RECURSIVE StrLen(_)
\* len(url)
StrLen(s) == IF s = <<>> THEN 0 ELSE TokLen(Head(s)) + StrLen(Tail(s))

\* Python's None where a string is expected (no token sequence equals it)
NoneStr == <<"None">>

\* needle in s
Contains(s, needle) ==
  \E i \in 1..(Len(s) - Len(needle) + 1) :
     SubSeq(s, i, i + Len(needle) - 1) = needle

\* positions of the one-token separator sep in s
SepPositions(s, sep) == {i \in 1..Len(s) : s[i] = sep}

\* s.split(sep)[0] for a one-token separator
SplitFirst(s, sep) ==
  IF SepPositions(s, sep) = {} THEN s
  ELSE LET p == CHOOSE i \in SepPositions(s, sep) :
                   \A j \in SepPositions(s, sep) : i <= j
       IN SubSeq(s, 1, p - 1)

\* s.split(sep)[1] for a one-token separator that occurs in s: the text
\* between the first occurrence and the second one (or the end)
SplitSecond(s, sep) ==
  LET ps == SepPositions(s, sep)
      p1 == CHOOSE i \in ps : \A j \in ps : i <= j
      after == {i \in ps : i > p1}
      p2 == IF after = {} THEN Len(s) + 1
            ELSE CHOOSE i \in after : \A j \in after : i <= j
  IN SubSeq(s, p1 + 1, p2 - 1)

WatchMarker == <<"W", "Q", "V">>     \* "youtube.com/watch?v="
ShortMarker == <<"S">>               \* "youtu.be/"
IdLength == 11

extract_video_id(url) ==
  IF Contains(url, WatchMarker)
    THEN SplitFirst(SplitSecond(url, "V"), "N")
  ELSE IF Contains(url, ShortMarker)
    THEN SplitFirst(SplitSecond(url, "S"), "Q")
  ELSE IF StrLen(url) = IdLength
    THEN url
  ELSE NoneStr

\* `if vid_id:` -- neither None nor the empty string
Truthy(s) == s # NoneStr /\ s # <<>>

\* ------------------------------------------------------------------ values
\* Python's None where a dict is expected
None == [py |-> "None"]

\* d.get(k, default) on a dict modelled as a function from its keys
Get(d, k, default) == IF k \in DOMAIN d THEN d[k] ELSE default

\* `if data:` / `if not metadata:` -- None and the empty dict are falsy
TruthyDict(d) == d # None /\ DOMAIN d # {}

\* x in list
InList(x, list) == \E i \in 1..Len(list) : list[i] = x

Min(a, b) == IF a <= b THEN a ELSE b

\* ------------------------------------------------------------------ HTTP
\* One HTTP exchange as the client sees it: requests.get raises
\* ([kind |-> "exception"]), or returns a response with a status code whose
\* .json() yields a dict or raises ([raises |-> TRUE]).
Raised == [raised |-> TRUE]
Returned(v) == [raised |-> FALSE, value |-> v]

\* fetch_video_metadata: the outcome of the call for the given exchange
fetch_video_metadata(response) ==
  IF response.kind = "exception" THEN Raised
  ELSE IF response.status_code = 200
    THEN IF response.json = Raised THEN Raised ELSE Returned(response.json)
  ELSE Returned(None)

\* ------------------------------------------------------------------ languages
NoneLang == "None"

\* check_transcript_availability that walks the available languages first
check_transcript_availability_AvailOrder(metadata, preferred_langs) ==
  IF ~TruthyDict(metadata) THEN None
  ELSE LET available_langs == Get(metadata, "transcriptLanguages", <<>>)
           hits == {i \in 1..Len(available_langs) :
                       InList(available_langs[i], preferred_langs)}
       IN IF hits # {}
            THEN [available |-> TRUE,
                  lang |-> available_langs[CHOOSE i \in hits : \A j \in hits : i <= j],
                  all_langs |-> available_langs,
                  title |-> Get(metadata, "title", "N/A")]
            ELSE [available |-> FALSE, lang |-> NoneLang,
                  all_langs |-> available_langs,
                  title |-> Get(metadata, "title", "N/A")]

\* check_transcript_availability that takes the first preferred language
\* without looking at what is available
check_transcript_availability_NoCheck(metadata, preferred_langs) ==
  IF ~TruthyDict(metadata) THEN None
  ELSE LET available_langs == Get(metadata, "transcriptLanguages", <<>>)
       IN IF preferred_langs # <<>>
            THEN [available |-> TRUE, lang |-> preferred_langs[1],
                  all_langs |-> available_langs,
                  title |-> Get(metadata, "title", "N/A")]
            ELSE [available |-> FALSE, lang |-> NoneLang,
                  all_langs |-> available_langs,
                  title |-> Get(metadata, "title", "N/A")]

check_transcript_availability(metadata, preferred_langs) ==
  IF ~TruthyDict(metadata) THEN None
  ELSE LET available_langs == Get(metadata, "transcriptLanguages", <<>>)
           hits == {i \in 1..Len(preferred_langs) :
                       InList(preferred_langs[i], available_langs)}
       IN IF hits # {}
            THEN [available |-> TRUE,
                  lang |-> preferred_langs[CHOOSE i \in hits : \A j \in hits : i <= j],
                  all_langs |-> available_langs,
                  title |-> Get(metadata, "title", "N/A")]
            ELSE [available |-> FALSE, lang |-> NoneLang,
                  all_langs |-> available_langs,
                  title |-> Get(metadata, "title", "N/A")]

\* ------------------------------------------------------------------ dates
\* An uploadDate string "YYYY-MM-DDsuffix" is <<y, m, d, suffix>>; any other
\* string is <<"bad">>.  A datetime at midnight is <<y, m, d>>.
IsIsoDate(s) == Len(s) = 4

\* s[:10]
First10(s) == IF IsIsoDate(s) THEN <<s[1], s[2], s[3], "">> ELSE s

\* datetime.strptime(s, "%Y-%m-%d"): ValueError unless s is exactly a date
strptime(s) ==
  IF IsIsoDate(s) /\ s[4] = "" THEN Returned(<<s[1], s[2], s[3]>>) ELSE Raised

\* a >= b on datetimes
DateGE(a, b) ==
  \/ a[1] > b[1]
  \/ a[1] = b[1] /\ a[2] > b[2]
  \/ a[1] = b[1] /\ a[2] = b[2] /\ a[3] >= b[3]

FilterCap == 50

\* filter_by_date's loop body that forgets the retained entries when the item raises
FilterStep_DropOnError(filtered, vid_id, response, target_date) ==
  LET got == fetch_video_metadata(response)
  IN IF got = Raised THEN <<>>
     ELSE LET data == got.value
          IN IF ~TruthyDict(data) THEN filtered
             ELSE IF "uploadDate" \notin DOMAIN data THEN <<>>
             ELSE LET parsed == strptime(First10(data["uploadDate"]))
                  IN IF parsed = Raised THEN <<>>
                     ELSE IF DateGE(parsed.value, target_date)
                       THEN Append(filtered,
                                   [id |-> vid_id,
                                    title |-> Get(data, "title", "N/A"),
                                    date |-> First10(data["uploadDate"]),
                                    views |-> Get(data, "viewCount", 0)])
                     ELSE filtered

\* one iteration of filter_by_date's loop body: the list after it
FilterStep(filtered, vid_id, response, target_date) ==
  LET got == fetch_video_metadata(response)
  IN IF got = Raised THEN filtered                    \* except: continue
     ELSE LET data == got.value
          IN IF ~TruthyDict(data) THEN filtered
             ELSE IF "uploadDate" \notin DOMAIN data THEN filtered   \* KeyError
             ELSE LET parsed == strptime(First10(data["uploadDate"]))
                  IN IF parsed = Raised THEN filtered               \* ValueError
                     ELSE IF DateGE(parsed.value, target_date)
                       THEN Append(filtered,
                                   [id |-> vid_id,
                                    title |-> Get(data, "title", "N/A"),
                                    date |-> First10(data["uploadDate"]),
                                    views |-> Get(data, "viewCount", 0)])
                     ELSE filtered

RECURSIVE FilterLoop(_, _, _, _, _)
\* the loop of filter_by_date; run holds the list built so far and the ids
\* whose metadata has been requested, one per iteration done
FilterLoop(responses, video_ids, target_date, cap, run) ==
  LET idx == Len(run.fetched) + 1
  IN IF idx > Min(Len(video_ids), cap) THEN run
     ELSE FilterLoop(responses, video_ids, target_date, cap,
                     [filtered |-> FilterStep(run.filtered, video_ids[idx], responses[idx],
                                              target_date),
                      fetched |-> Append(run.fetched, video_ids[idx])])

NoRun == [filtered |-> <<>>, fetched |-> <<>>]

\* filter_by_date without the cap on the ids it looks at
FilterRun_NoCap(responses, video_ids, target_date) ==
  FilterLoop(responses, video_ids, target_date, Len(video_ids), NoRun)

\* one call of filter_by_date: the list it returns and the metadata requests
\* it makes; responses[i] is the HTTP exchange of the request for video_ids[i]
FilterRun(responses, video_ids, target_date) ==
  FilterLoop(responses, video_ids, target_date, FilterCap, NoRun)

filter_by_date(responses, video_ids, target_date) ==
  FilterRun(responses, video_ids, target_date).filtered

\* ------------------------------------------------------------------ session
VARIABLES
  transcripts,        \* st.session_state.transcripts
  video_ids,          \* st.session_state.video_ids (<<>> while not yet set)
  analysis_result,    \* st.session_state.analysis_result
  handler,            \* the button handler of the current script run
  pc,                 \* where that handler stands: "idle" once the script run is over
  idx,                \* loop index (1-based) of the batch loop / the date filter loop
  videos_to_process,  \* the batch run's window, video_ids[:max_videos]
  preferred_langs,    \* sidebar choice read by the batch run
  as_text,            \* checkbox read by the batch run
  max_videos,         \* number input read by the batch run (0 outside a run)
  availability,       \* the current item's check_transcript_availability result
  listing,            \* from-date handler: the channel's videoIds being filtered
  filtered,           \* filter_by_date's result list so far
  target_date,        \* from-date handler: the cutoff
  events,             \* st.error / st.warning / st.success calls of this script run
  calls,              \* provider requests issued in this script run, in order
  inflight,           \* provider requests issued and not yet answered
  sleeps,             \* time.sleep calls of this script run
  reported,           \* the count shown by the final st.success, or -1
  escaped,            \* an exception left the handler (the script run was aborted)
  outcomes,           \* history: what the provider answered for each item of the batch run
  arg,                \* input of the function under study (function specifications)
  ret                 \* its result

vars == <<transcripts, video_ids, analysis_result, handler, pc, idx,
          videos_to_process, preferred_langs, as_text, availability, listing,
          filtered, target_date, events, calls, inflight, sleeps, reported,
          escaped, max_videos, outcomes, arg, ret>>

session == <<transcripts, video_ids, analysis_result>>
batchLocals == <<videos_to_process, preferred_langs, as_text, availability, max_videos>>
filterLocals == <<listing, filtered, target_date>>
study == <<arg, ret>>

\* A Python value that is a str or a list
PyStr(v) == [type |-> "str", val |-> v]
PyList(v) == [type |-> "list", val |-> v]

\* a segment of a transcript is an object; anything else in its place (here a
\* bare string) has no .get and makes the join raise AttributeError
Malformed == [py |-> "str"]
WellFormed(content) ==
  content.type = "list" => \A i \in 1..Len(content.val) : "py" \notin DOMAIN content.val[i]

\* ------------------------------------------------------------------ inputs
Ids == {<<"A">>, <<"B">>}

RECURSIVE SeqsUpTo(_, _)
\* all sequences over S of length at most n
SeqsUpTo(S, n) ==
  IF n = 0 THEN {<<>>}
  ELSE LET shorter == SeqsUpTo(S, n - 1)
       IN shorter \cup {Append(q, x) : q \in shorter, x \in S}

IdLists == SeqsUpTo(Ids, MaxIds)

\* sidebar choices of the session model: no language, or both ('en' is
\* appended before 'pl')
PreferredChoices == {<<>>, <<"en", "pl">>}

\* transcriptLanguages values of the videos the provider knows
LangLists == {<<>>, <<"de", "fr">>, <<"pl">>}

Exception == [kind |-> "exception"]
Response(code, body) == [kind |-> "response", status_code |-> code, json |-> body]

\* answers of the metadata endpoint during a batch run
BatchMetaResponses ==
  {Exception, Response(404, Raised), Response(200, Raised), Response(200, <<>>)}
  \cup {Response(200, [title |-> "t1", transcriptLanguages |-> l]) : l \in LangLists}

\* answers of the transcript endpoint
TranscriptResponses ==
  {Exception, Response(404, Raised), Response(200, Raised),
   Response(200, [lang |-> "en", content |-> PyStr(<<"s1", "\n", "s2">>)]),
   Response(200, [lang |-> "en", content |-> PyList(<<[text |-> <<"s1">>, offset |-> 0],
                                                     [text |-> <<"s2">>, offset |-> 5]>>)]),
   Response(200, [lang |-> "en", content |-> PyList(<<[text |-> <<"s1">>, offset |-> 0],
                                                     Malformed>>)])}

\* answers of the metadata endpoint during a from-date resolution
Cutoff == <<2024, 1, 1>>
FilterMetaResponses ==
  {Exception,
   Response(200, [title |-> "t1", uploadDate |-> <<2023, 12, 31, "T23:59:59Z">>]),
   Response(200, [title |-> "t1", uploadDate |-> <<2024, 2, 1, "T00:00:00Z">>])}

\* answers of the channel listing endpoint
ChannelResponses ==
  {Exception, Response(500, Raised), Response(200, <<>>)}
  \cup {Response(200, [videoIds |-> t[1], shortIds |-> t[2], liveIds |-> t[3]]) :
          t \in {u \in IdLists \X {<<>>, <<<<"B">>>>} \X {<<>>, <<<<"A">>>>} :
                   Len(u[1]) + Len(u[2]) + Len(u[3]) <= MaxIds}}

\* lines a user pastes into the links box
LinkLines == {<<"W", "Q", "V", "A">>, <<"S", "B", "Q", "x">>, <<"x">>}

\* ------------------------------------------------------------------ outputs
Event(level, step, at, shows) ==
  [level |-> level, step |-> step, at |-> at, shows |-> shows]

\* title[:50] (the titles of the model are shorter than 50 characters)
Title50(t) == t

RECURSIVE JoinComma(_)
\* ', '.join(langs)
JoinComma(langs) ==
  IF langs = <<>> THEN <<>>
  ELSE IF Len(langs) = 1 THEN langs
  ELSE <<Head(langs), ", ">> \o JoinComma(Tail(langs))

MetaRequest(video_id) == [endpoint |-> "video", id |-> video_id]
\* the transcript request made for the first preferred language instead of
\* the selected one
TranscriptRequest_FirstPreferred(video_id, lang, text) ==
  [endpoint |-> "transcript", videoId |-> video_id, lang |-> preferred_langs[1],
   text |-> text]

TranscriptRequest(video_id, lang, text) ==
  [endpoint |-> "transcript", videoId |-> video_id, lang |-> lang, text |-> text]
ChannelRequest == [endpoint |-> "channel"]

\* ------------------------------------------------------------------ Init
Init ==
  /\ transcripts = <<>>
  /\ video_ids = <<>>
  /\ analysis_result = None
  /\ handler = "none"
  /\ pc = "idle"
  /\ idx = 0
  /\ videos_to_process = <<>>
  /\ preferred_langs = <<>>
  /\ as_text = TRUE
  /\ availability = None
  /\ listing = <<>>
  /\ filtered = <<>>
  /\ target_date = Cutoff
  /\ events = <<>>
  /\ calls = <<>>
  /\ inflight = {}
  /\ sleeps = 0
  /\ reported = -1
  /\ escaped = FALSE
  /\ max_videos = 0
  /\ outcomes = <<>>
  /\ arg = <<>>
  /\ ret = <<>>

\* A button click starts a new script run: what the previous run displayed and
\* its local variables are gone.
FreshRun(h) ==
  /\ pc = "idle"
  /\ handler' = h
  /\ sleeps' = 0
  /\ reported' = -1
  /\ escaped' = FALSE
  /\ UNCHANGED study

NoBatchLocals ==
  /\ videos_to_process' = <<>>
  /\ preferred_langs' = <<>>
  /\ as_text' = TRUE
  /\ availability' = None
  /\ max_videos' = 0
  /\ outcomes' = <<>>

NoFilterLocals ==
  /\ listing' = <<>>
  /\ filtered' = <<>>
  /\ target_date' = Cutoff

\* a handler whose guard clears the records before it shows its error
Rejected_Clearing(h, what) ==
  /\ FreshRun(h)
  /\ NoBatchLocals
  /\ NoFilterLocals
  /\ idx' = 0
  /\ events' = <<Event("error", what, 0, <<>>)>>
  /\ calls' = <<>>
  /\ inflight' = {}
  /\ pc' = "idle"
  /\ transcripts' = <<>>
  /\ UNCHANGED <<video_ids, analysis_result>>

\* a handler that only shows an error
Rejected(h, what) ==
  /\ FreshRun(h)
  /\ NoBatchLocals
  /\ NoFilterLocals
  /\ idx' = 0
  /\ events' = <<Event("error", what, 0, <<>>)>>
  /\ calls' = <<>>
  /\ inflight' = {}
  /\ pc' = "idle"
  /\ UNCHANGED session

\* the handler issues its first provider request and blocks on it
FirstRequest(request, waitAt) ==
  /\ events' = <<>>
  /\ calls' = <<request>>
  /\ inflight' = {1}
  /\ pc' = waitAt

\* the blocked handler gets its answer and issues the next request
NextRequest(request, waitAt) ==
  /\ calls' = Append(calls, request)
  /\ inflight' = (inflight \ {Len(calls)}) \cup {Len(calls) + 1}
  /\ pc' = waitAt

\* the blocked handler gets its answer and runs to its end
LastAnswer ==
  /\ calls' = calls
  /\ inflight' = inflight \ {Len(calls)}
  /\ pc' = "idle"

\* an exception leaves the handler: Streamlit aborts the script run
Abort ==
  /\ LastAnswer
  /\ escaped' = TRUE
  /\ UNCHANGED <<handler, idx, batchLocals, filterLocals, events, sleeps,
                 reported, outcomes, study>>

\* ------------------------------------------------------------------ resolution
\* clear_results (st.session_state.results is never written elsewhere and stays [])
clear_results ==
  /\ transcripts' = <<>>
  /\ analysis_result' = None

\* fetch_channel_videos: the value returned (or Raised) and the st.error calls
fetch_channel_videos(response) ==
  IF response.kind = "exception" THEN [out |-> Raised, errors |-> <<>>]
  ELSE IF response.status_code = 200
    THEN [out |-> IF response.json = Raised THEN Raised ELSE Returned(response.json),
          errors |-> <<>>]
  ELSE [out |-> Returned(None),
        errors |-> <<Event("error", "channel_status", 0, [status |-> response.status_code]),
                     Event("error", "channel_body", 0, <<>>)>>]

\* mode 1, button "Pobierz liste filmikow"
ListAllClick(api_key, channel_id) ==
  IF ~api_key THEN Rejected("list_all", "api_key")
  ELSE IF ~channel_id THEN Rejected("list_all", "channel_id")
  ELSE /\ FreshRun("list_all")
       /\ NoBatchLocals
       /\ NoFilterLocals
       /\ idx' = 0
       /\ clear_results
       /\ video_ids' = video_ids
       /\ FirstRequest(ChannelRequest, "channel_wait")

\* mode 2, button "Pobierz najnowsze filmiki"
NewestClick(api_key, channel_id) ==
  IF ~api_key \/ ~channel_id THEN Rejected("newest", "fields")
  ELSE /\ FreshRun("newest")
       /\ NoBatchLocals
       /\ NoFilterLocals
       /\ idx' = 0
       /\ UNCHANGED session
       /\ FirstRequest(ChannelRequest, "channel_wait")

\* mode 2, button "Pobierz filmiki od daty"
FromDateClick(api_key, channel_id, date) ==
  IF ~api_key \/ ~channel_id THEN Rejected("from_date", "fields")
  ELSE /\ FreshRun("from_date")
       /\ NoBatchLocals
       /\ listing' = <<>>
       /\ filtered' = <<>>
       /\ target_date' = date
       /\ idx' = 0
       /\ UNCHANGED session
       /\ FirstRequest(ChannelRequest, "channel_wait")

\* the ids of filter_by_date's entries: [v['id'] for v in filtered]
EntryIds(entries) == [i \in 1..Len(entries) |-> entries[i].id]

\* the end of the from-date handler that stores the ids also when there are none
FromDateFinish_StoreEmpty(result) ==
  /\ filtered' = result
  /\ video_ids' = EntryIds(result)
  /\ IF result # <<>>
       THEN events' = Append(events, Event("success", "found", 0, [count |-> Len(result)]))
       ELSE events' = Append(events, Event("warning", "none_found", 0, <<>>))
  /\ LastAnswer

\* the end of the from-date handler once filter_by_date has returned
FromDateFinish(result) ==
  /\ filtered' = result
  /\ IF result # <<>>
       THEN /\ video_ids' = EntryIds(result)
            /\ events' = Append(events, Event("success", "found", 0, [count |-> Len(result)]))
       ELSE /\ video_ids' = video_ids
            /\ events' = Append(events, Event("warning", "none_found", 0, <<>>))
  /\ LastAnswer

\* the three channel handlers after fetch_channel_videos returned
ChannelResponse(response) ==
  /\ pc = "channel_wait"
  /\ LET got == fetch_channel_videos(response)
     IN IF got.out = Raised THEN Abort /\ UNCHANGED session
        ELSE LET data == got.out.value
                 vids == Get(data, "videoIds", <<>>)
             IN /\ UNCHANGED <<transcripts, analysis_result, handler, batchLocals,
                               target_date, sleeps, reported, escaped, outcomes, study>>
                /\ IF ~TruthyDict(data)
                     THEN /\ events' = events \o got.errors
                          /\ LastAnswer
                          /\ UNCHANGED <<video_ids, idx, listing, filtered>>
                   ELSE IF handler = "list_all"
                     THEN /\ video_ids' = vids \o Get(data, "shortIds", <<>>)
                                               \o Get(data, "liveIds", <<>>)
                          /\ events' = Append(events,
                                 Event("success", "listed", 0, [count |-> Len(video_ids')]))
                          /\ LastAnswer
                          /\ UNCHANGED <<idx, listing, filtered>>
                   ELSE IF handler = "newest"
                     THEN /\ video_ids' = vids
                          /\ events' = Append(events,
                                 Event("success", "listed", 0, [count |-> Len(vids)]))
                          /\ LastAnswer
                          /\ UNCHANGED <<idx, listing, filtered>>
                   ELSE /\ listing' = vids
                        /\ IF vids = <<>>
                             THEN /\ FromDateFinish(<<>>)
                                  /\ idx' = idx
                             ELSE /\ idx' = 1
                                  /\ filtered' = <<>>
                                  /\ events' = events
                                  /\ video_ids' = video_ids
                                  /\ NextRequest(MetaRequest(vids[1]), "filter_wait")

\* the exchange makes the loop body of filter_by_date leave through `except`
FilterRaises(response) ==
  LET got == fetch_video_metadata(response)
  IN \/ got = Raised
     \/ /\ TruthyDict(got.value)
        /\ \/ "uploadDate" \notin DOMAIN got.value
           \/ strptime(First10(got.value["uploadDate"])) = Raised

\* one iteration of filter_by_date inside the from-date handler
FilterResponse(response) ==
  /\ pc = "filter_wait"
  /\ LET result == FilterStep(filtered, listing[idx], response, target_date)
     IN /\ sleeps' = IF FilterRaises(response) THEN sleeps ELSE sleeps + 1
        /\ IF idx < Min(Len(listing), FilterCap)
             THEN /\ idx' = idx + 1
                  /\ filtered' = result
                  /\ NextRequest(MetaRequest(listing[idx + 1]), "filter_wait")
                  /\ UNCHANGED <<video_ids, events>>
             ELSE /\ idx' = idx
                  /\ FromDateFinish(result)
  /\ UNCHANGED <<transcripts, analysis_result, handler, batchLocals, listing,
                 target_date, reported, escaped, outcomes, study>>

\* [extract_video_id(link) for link in links_list], keeping the truthy results
ExtractAll(links_list) ==
  SelectSeq([i \in 1..Len(links_list) |-> extract_video_id(links_list[i])], Truthy)

\* mode 3, button "Wyciagnij ID z linkow"; links_list holds the stripped
\* non-empty lines of the text area
ExtractLinksClick(links_list) ==
  IF links_list = <<>> THEN Rejected("links", "links")
  ELSE /\ FreshRun("links")
       /\ NoBatchLocals
       /\ NoFilterLocals
       /\ idx' = 0
       /\ video_ids' = ExtractAll(links_list)
       /\ events' = <<Event("success", "extracted", 0, [count |-> Len(video_ids')])>>
       /\ calls' = <<>>
       /\ inflight' = {}
       /\ pc' = "idle"
       /\ UNCHANGED <<transcripts, analysis_result>>

\* ------------------------------------------------------------------ transcripts
RECURSIVE JoinNewline(_)
\* '\n'.join(strings)
JoinNewline(strings) ==
  IF strings = <<>> THEN <<>>
  ELSE IF Len(strings) = 1 THEN strings[1]
  ELSE strings[1] \o <<"\n">> \o JoinNewline(Tail(strings))

\* fetch_transcript that lets the exceptions of its body through
fetch_transcript_Unguarded(response) ==
  IF response.kind = "exception" THEN Raised
  ELSE IF response.status_code = 200
    THEN IF response.json = Raised THEN Raised
         ELSE LET data == response.json
                  content == Get(data, "content", PyStr(<<>>))
                  flat == IF content.type = "list"
                            THEN JoinNewline([i \in 1..Len(content.val) |->
                                                Get(content.val[i], "text", <<>>)])
                            ELSE content.val
              IN IF ~WellFormed(content) THEN Raised
                 ELSE [k \in DOMAIN data \cup {"content"} |->
                         IF k = "content" THEN flat ELSE data[k]]
  ELSE None

\* fetch_transcript: the dict returned, or None
fetch_transcript(response) ==
  IF response.kind = "exception" THEN None                      \* except Exception
  ELSE IF response.status_code = 200
    THEN IF response.json = Raised THEN None                    \* except Exception
         ELSE LET data == response.json
                  content == Get(data, "content", PyStr(<<>>))
                  flat == IF content.type = "list"
                            THEN JoinNewline([i \in 1..Len(content.val) |->
                                                Get(content.val[i], "text", <<>>)])
                            ELSE content.val
              IN IF ~WellFormed(content) THEN None              \* except Exception
                 ELSE [k \in DOMAIN data \cup {"content"} |->
                         IF k = "content" THEN flat ELSE data[k]]
  ELSE None

\* the batch window taken from the whole list
Window_NoCap(ids, count) == ids

\* st.session_state.video_ids[:max_videos]
Window(ids, count) == SubSeq(ids, 1, Min(count, Len(ids)))

\* a batch run that starts from the records already held
ResetRecords_Keep(list) == list

\* st.session_state.transcripts = [] at the start of a batch run
ResetRecords(list) == <<>>

\* st.session_state.transcripts with the record put in front
AppendRecord_Prepend(list, record) == <<record>> \o list

\* st.session_state.transcripts.append(record)
AppendRecord(list, record) == Append(list, record)

\* What the provider answered for one item, as the history keeps it: the
\* metadata call "ok" (status 200 with a non-empty object), "failed" (another
\* status, or an empty object) or "raised" (the HTTP call or the decoding of
\* its body raised); the transcript call "ok", "failed" or "none" (not issued).
MetaSucceeded(response) ==
  /\ response.kind = "response"
  /\ response.status_code = 200
  /\ response.json # Raised
  /\ DOMAIN response.json # {}

TranscriptSucceeded(response) ==
  /\ response.kind = "response"
  /\ response.status_code = 200
  /\ response.json # Raised
  /\ WellFormed(Get(response.json, "content", PyStr(<<>>)))

MetaOutcome(at, response) ==
  [at |-> at,
   meta |-> IF MetaSucceeded(response) THEN "ok"
            ELSE IF response.kind = "response" /\ response.status_code # 200 THEN "failed"
            ELSE IF response.kind = "response" /\ response.json # Raised THEN "failed"
            ELSE "raised",
   langs |-> IF MetaSucceeded(response)
               THEN Get(response.json, "transcriptLanguages", <<>>) ELSE <<>>,
   trans |-> "none"]

\* the record appended for a fetched transcript
TranscriptRecord(video_id, avail, transcript_data) ==
  [video_id |-> video_id,
   title |-> avail.title,
   lang |-> avail.lang,
   transcript |-> Get(transcript_data, "content", <<>>),
   all_langs |-> avail.all_langs]

\* the batch loop after an item's last statement before progress/sleep: the
\* sleep, then the next item's metadata request or the end of the handler
FinishItem ==
  /\ sleeps' = sleeps + 1
  /\ IF idx < Len(videos_to_process)
       THEN /\ idx' = idx + 1
            /\ NextRequest(MetaRequest(videos_to_process[idx + 1]), "meta_wait")
            /\ reported' = reported
       ELSE /\ idx' = idx
            /\ LastAnswer
            /\ reported' = Len(transcripts')

\* button "Pobierz transkrypty" (shown only while video_ids is non-empty)
BatchClick(api_key, langs, count, text) ==
  /\ video_ids # <<>>
  /\ count \in 1..Len(video_ids)
  /\ IF ~api_key THEN Rejected("batch", "api_key")
     ELSE IF langs = <<>> THEN Rejected("batch", "language")
     ELSE /\ FreshRun("batch")
          /\ NoFilterLocals
          /\ transcripts' = ResetRecords(transcripts)
          /\ UNCHANGED <<video_ids, analysis_result>>
          /\ max_videos' = count
          /\ videos_to_process' = Window(video_ids, count)
          /\ preferred_langs' = langs
          /\ as_text' = text
          /\ availability' = None
          /\ outcomes' = <<>>
          /\ idx' = 1
          /\ FirstRequest(MetaRequest(video_ids[1]), "meta_wait")

\* the loop body from the return of fetch_video_metadata to the next request
MetaResponse(response) ==
  /\ pc = "meta_wait"
  /\ LET video_id == videos_to_process[idx]
         got == fetch_video_metadata(response)
     IN IF got = Raised
          THEN /\ LastAnswer
               /\ escaped' = TRUE
               /\ outcomes' = Append(outcomes, MetaOutcome(idx, response))
               /\ UNCHANGED <<session, handler, idx, batchLocals, filterLocals, events,
                              sleeps, reported, study>>
        ELSE LET metadata == got.value
                 avail == check_transcript_availability(metadata, preferred_langs)
             IN /\ UNCHANGED <<video_ids, analysis_result, handler, videos_to_process,
                               preferred_langs, as_text, max_videos, filterLocals,
                               escaped, study>>
                /\ outcomes' = Append(outcomes, MetaOutcome(idx, response))
                /\ IF ~TruthyDict(metadata)
                     THEN /\ events' = Append(events,
                                 Event("warning", "metadata", idx, [video_id |-> video_id]))
                          /\ UNCHANGED <<transcripts, availability>>
                          /\ FinishItem
                   ELSE IF avail # None /\ avail.available
                     THEN /\ availability' = avail
                          /\ NextRequest(TranscriptRequest(video_id, avail.lang, as_text),
                                         "trans_wait")
                          /\ UNCHANGED <<transcripts, events, idx, sleeps, reported>>
                   ELSE /\ availability' = avail
                        /\ events' = Append(events,
                               Event("warning", "language", idx,
                                     [title |-> Title50(avail.title),
                                      available |-> IF avail # None /\ avail.all_langs # <<>>
                                                      THEN JoinComma(avail.all_langs)
                                                      ELSE <<"brak">>]))
                        /\ UNCHANGED transcripts
                        /\ FinishItem

\* the loop body from the return of fetch_transcript to the next request
TransResponse(response) ==
  /\ pc = "trans_wait"
  /\ LET video_id == videos_to_process[idx]
         transcript_data == fetch_transcript(response)
         trans == IF TranscriptSucceeded(response) THEN "ok" ELSE "failed"
     IN IF transcript_data = Raised
          THEN /\ LastAnswer
               /\ escaped' = TRUE
               /\ outcomes' = [outcomes EXCEPT ![Len(outcomes)].trans = trans]
               /\ UNCHANGED <<session, handler, idx, batchLocals, filterLocals, events,
                              sleeps, reported, study>>
        ELSE /\ UNCHANGED <<video_ids, analysis_result, handler, videos_to_process,
                            preferred_langs, as_text, availability, max_videos,
                            filterLocals, escaped, study>>
             /\ outcomes' = [outcomes EXCEPT ![Len(outcomes)].trans = trans]
             /\ IF TruthyDict(transcript_data)
                  THEN /\ transcripts' = AppendRecord(transcripts,
                              TranscriptRecord(video_id, availability, transcript_data))
                       /\ events' = Append(events,
                              Event("success", "recorded", idx,
                                    [title |-> Title50(availability.title),
                                     lang |-> availability.lang]))
                  ELSE /\ transcripts' = transcripts
                       /\ events' = Append(events,
                              Event("warning", "transcript", idx, [video_id |-> video_id]))
             /\ FinishItem

\* ------------------------------------------------------------------ analysis
\* the analysis handler that stores whatever the summarization returned
AnalyzeClick_StoreAlways(result) ==
  /\ transcripts # <<>>
  /\ FreshRun("analyze")
  /\ NoBatchLocals
  /\ NoFilterLocals
  /\ idx' = 0
  /\ calls' = <<>>
  /\ inflight' = {}
  /\ pc' = "idle"
  /\ analysis_result' = IF result.success THEN result.data ELSE None
  /\ events' = IF result.success THEN <<Event("success", "analysis", 0, <<>>)>>
               ELSE <<Event("error", "analysis", 0, <<>>)>>
  /\ UNCHANGED <<transcripts, video_ids>>

\* button "Analizuj przez Gemini AI" (shown only with transcripts and a Gemini key)
AnalyzeClick(result) ==
  /\ transcripts # <<>>
  /\ FreshRun("analyze")
  /\ NoBatchLocals
  /\ NoFilterLocals
  /\ idx' = 0
  /\ calls' = <<>>
  /\ inflight' = {}
  /\ pc' = "idle"
  /\ IF result.success
       THEN /\ analysis_result' = result.data
            /\ events' = <<Event("success", "analysis", 0, <<>>)>>
       ELSE /\ analysis_result' = analysis_result
            /\ events' = <<Event("error", "analysis", 0, <<>>)>>
  /\ UNCHANGED <<transcripts, video_ids>>

\* what analyze_transcripts_with_gemini returns: the parsed JSON of the
\* answer (an object, or null when the answer is the JSON text null), or a
\* failure (API error, or an answer that is no JSON)
AnalysisResults ==
  {[success |-> TRUE, data |-> [overall_summary |-> "s"]],
   [success |-> TRUE, data |-> None],
   [success |-> FALSE]}

\* ------------------------------------------------------------------ Spec
Next ==
  \/ \E api_key, channel_id \in BOOLEAN : ListAllClick(api_key, channel_id)
  \/ \E api_key, channel_id \in BOOLEAN : NewestClick(api_key, channel_id)
  \/ \E api_key, channel_id \in BOOLEAN : FromDateClick(api_key, channel_id, Cutoff)
  \/ \E response \in ChannelResponses : ChannelResponse(response)
  \/ \E response \in FilterMetaResponses : FilterResponse(response)
  \/ \E links_list \in SeqsUpTo(LinkLines, MaxIds) : ExtractLinksClick(links_list)
  \/ \E api_key, text \in BOOLEAN, langs \in PreferredChoices,
        count \in 1..Len(video_ids) :
        BatchClick(api_key, langs, count, text)
  \/ \E response \in BatchMetaResponses : MetaResponse(response)
  \/ \E response \in TranscriptResponses : TransResponse(response)
  \/ \E result \in AnalysisResults : AnalyzeClick(result)

Spec == Init /\ [][Next]_vars

\* ------------------------------------------------------------------ BatchSpec
\* The transcript section alone: the session as a resolution left it, with or
\* without a record of an earlier batch run, and the batch handler.
StaleRecord ==
  [video_id |-> <<"B">>, title |-> "t1", lang |-> "pl",
   transcript |-> <<"s1", "\n", "s2">>, all_langs |-> <<"pl">>]

BatchInit ==
  /\ transcripts \in {<<>>, <<StaleRecord>>}
  /\ video_ids \in SeqsUpTo(Ids, MaxWindow) \ {<<>>}
  /\ analysis_result = None
  /\ handler = "none"
  /\ pc = "idle"
  /\ idx = 0
  /\ videos_to_process = <<>>
  /\ preferred_langs = <<>>
  /\ as_text = TRUE
  /\ availability = None
  /\ listing = <<>>
  /\ filtered = <<>>
  /\ target_date = Cutoff
  /\ events = <<>>
  /\ calls = <<>>
  /\ inflight = {}
  /\ sleeps = 0
  /\ reported = -1
  /\ escaped = FALSE
  /\ max_videos = 0
  /\ outcomes = <<>>
  /\ arg = <<>>
  /\ ret = <<>>

\* everything the sidebar can produce: 'en' is appended before 'pl'
SidebarChoices == {<<>>, <<"en">>, <<"pl">>, <<"en", "pl">>}

\* a further answer of the metadata endpoint: both languages on offer
MoreMetaResponses ==
  {Response(200, [title |-> "t1", transcriptLanguages |-> <<"pl", "en">>])}

\* (a click without a key or without a language is rejected whatever the
\* other inputs are)
BatchNext ==
  \/ \E langs \in SidebarChoices : BatchClick(FALSE, langs, 1, TRUE)
  \/ BatchClick(TRUE, <<>>, 1, TRUE)
  \/ \E text \in BOOLEAN, langs \in SidebarChoices \ {<<>>}, count \in 1..Len(video_ids) :
        BatchClick(TRUE, langs, count, text)
  \/ \E response \in BatchMetaResponses \cup MoreMetaResponses : MetaResponse(response)
  \/ \E response \in TranscriptResponses : TransResponse(response)

BatchSpec == BatchInit /\ [][BatchNext]_vars

\* ------------------------------------------------------------------ function specifications
\* One call of the function under study: arg is drawn by the initial state,
\* the call stores its result in ret.
StudyInit(args) ==
  /\ transcripts = <<>>
  /\ video_ids = <<>>
  /\ analysis_result = None
  /\ handler = "none"
  /\ pc = "call"
  /\ idx = 0
  /\ videos_to_process = <<>>
  /\ preferred_langs = <<>>
  /\ as_text = TRUE
  /\ availability = None
  /\ listing = <<>>
  /\ filtered = <<>>
  /\ target_date = Cutoff
  /\ events = <<>>
  /\ calls = <<>>
  /\ inflight = {}
  /\ sleeps = 0
  /\ reported = -1
  /\ escaped = FALSE
  /\ max_videos = 0
  /\ outcomes = <<>>
  /\ arg \in args
  /\ ret = <<>>

StudyReturn(value) ==
  /\ pc = "call"
  /\ pc' = "returned"
  /\ ret' = value
  /\ UNCHANGED <<session, handler, idx, batchLocals, filterLocals, events, calls,
                 inflight, sleeps, reported, escaped, outcomes, arg>>

\* --- extract_video_id
ExtractArgs == SeqsUpTo(Tokens, MaxTok)
ExtractCall == StudyReturn(extract_video_id(arg))
ExtractSpec == StudyInit(ExtractArgs) /\ [][ExtractCall]_vars

\* --- check_transcript_availability
Langs == {"en", "pl", "de"}
SelectMetadata ==
  {None, <<>>, [title |-> "t1"]}
  \cup {[title |-> "t1", transcriptLanguages |-> l] : l \in SeqsUpTo(Langs, MaxLangs)}
  \cup {[transcriptLanguages |-> l] : l \in SeqsUpTo(Langs, MaxLangs)}
SelectArgs ==
  {[metadata |-> m, preferred_langs |-> p] :
     m \in SelectMetadata, p \in SeqsUpTo(Langs, MaxLangs)}
SelectCall ==
  StudyReturn(check_transcript_availability(arg.metadata, arg.preferred_langs))
SelectSpec == StudyInit(SelectArgs) /\ [][SelectCall]_vars

\* --- filter_by_date
\* answers of the metadata endpoint the date filter is studied with
FilterStudyResponses ==
  {Exception, Response(404, Raised), Response(200, Raised), Response(200, <<>>),
   Response(200, [title |-> "t1"]),
   Response(200, [title |-> "t1", uploadDate |-> <<"bad">>]),
   Response(200, [title |-> "t1", viewCount |-> 7,
                  uploadDate |-> <<2023, 12, 31, "T23:59:59Z">>]),
   Response(200, [title |-> "t1", uploadDate |-> <<2024, 1, 1, "T23:59:59Z">>]),
   Response(200, [uploadDate |-> <<2024, 2, 1, "">>])}

\* the list of length n that repeats base
Pattern(base, n) == [i \in 1..n |-> base[((i - 1) % Len(base)) + 1]]

FilterLens == (0..MaxPad) \cup ((FilterCap - 1)..(FilterCap + MaxPad))

FilterArgs ==
  {[video_ids |-> Pattern(b, n), responses |-> Pattern(r, n), target_date |-> Cutoff] :
     n \in FilterLens,
     b \in {<<<<"A">>>>, <<<<"A">>, <<"B">>>>},
     r \in SeqsUpTo(FilterStudyResponses, MaxPeriod) \ {<<>>}}

FilterCall == StudyReturn(FilterRun(arg.responses, arg.video_ids, arg.target_date))
FilterSpec == StudyInit(FilterArgs) /\ [][FilterCall]_vars

\* ------------------------------------------------------------------ export
\* A title is a sequence of characters.  The characters the code tells apart:
\* the reserved ones, the C0 controls \x00-\x1f (here newline, tab, NUL), the
\* white space that survives their removal (space, no-break space \xa0, line
\* separator U+2028), the dot, the controls outside \x00-\x1f (DEL \x7f and
\* \x9f) and ordinary characters.
ReservedChars == {"<", ">", ":", "\"", "/", "\\", "|", "?", "*"}
C0Controls == {"\n", "\t", "NUL"}
OtherControls == {"DEL", "x9f"}
WhiteSpace == {" ", "NBSP", "LSEP"}

\* the character class [<>:"/\\|?*\x00-\x1f]
InvalidChar(c) == c \in ReservedChars \cup C0Controls
ValidChar(c) == ~InvalidChar(c)

\* a character paired with the one before it starts no white-space run's tail
RunHead(pair) == ~(pair[1] \in WhiteSpace /\ pair[2] \in WhiteSpace)

\* re.sub(r'\s+', ' ', s): every white-space run becomes one space
CollapseSpaces(s) ==
  LET pairs == [i \in 1..Len(s) |-> <<s[i], IF i > 1 THEN s[i - 1] ELSE "">>]
      heads == SelectSeq(pairs, RunHead)
  IN [k \in 1..Len(heads) |-> IF heads[k][1] \in WhiteSpace THEN " " ELSE heads[k][1]]

RECURSIVE LStrip(_, _)
\* s.lstrip(chars)
LStrip(s, chars) ==
  IF s # <<>> /\ Head(s) \in chars THEN LStrip(Tail(s), chars) ELSE s

RECURSIVE RStrip(_, _)
\* s.rstrip(chars)
RStrip(s, chars) ==
  IF s # <<>> /\ s[Len(s)] \in chars THEN RStrip(SubSeq(s, 1, Len(s) - 1), chars) ELSE s

\* s.strip(chars)
Strip(s, chars) == RStrip(LStrip(s, chars), chars)

Untitled == <<"u", "n", "t", "i", "t", "l", "e", "d">>

\* the default of max_length
MaxLength == 200

\* sanitize_filename(filename, max_length)
sanitize_filename(filename, max_length) ==
  LET removed == SelectSeq(filename, ValidChar)
      collapsed == CollapseSpaces(removed)
      stripped == Strip(collapsed, {" ", "."})
      named == IF stripped = <<>> THEN Untitled ELSE stripped
  IN IF Len(named) > max_length THEN SubSeq(named, 1, max_length) ELSE named

\* --- sanitize_filename
\* short titles over every kind of character, and titles about max_length
\* long: a run of ordinary characters with a short tail
TitleChars == {"a", " ", ".", ":", "\n", "NBSP", "DEL"}
Fill(n) == [i \in 1..n |-> "a"]
LongTitles ==
  {Fill(n) \o t : n \in (MaxLength - MaxTail)..MaxLength,
                  t \in SeqsUpTo({"a", " ", "."}, MaxTail)}
\* 'Foo: Bar / Baz???' and a title of invalid characters only
ExampleTitles ==
  {<<"F", "o", "o", ":", " ", "B", "a", "r", " ", "/", " ", "B", "a", "z", "?", "?", "?">>,
   <<"?", "*", "<", ">", "|", "\"", "\\", "/", ":">>}
SanitizeArgs == SeqsUpTo(TitleChars, MaxTitle) \cup LongTitles \cup ExampleTitles
SanitizeCall == StudyReturn(sanitize_filename(arg, MaxLength))
SanitizeSpec == StudyInit(SanitizeArgs) /\ [][SanitizeCall]_vars

\* --- the export section
\* json.dumps(obj, ensure_ascii=False, indent=2) of a dict: its keys and
\* values in insertion order, characters kept as they are
JsonObject(pairs) == [type |-> "object", members |-> pairs]

\* f"{safe_title}_transcript_{lang}.{ext}"
EntryName(safe_title, lang, ext) == safe_title \o <<"_transcript_", lang, ".", ext>>

\* the JSON document of one record (create_transcripts_zip, format 'json')
RecordJson(transcript) ==
  JsonObject(<<<<"video_id", transcript.video_id>>,
               <<"title", transcript.title>>,
               <<"lang", transcript.lang>>,
               <<"all_langs", transcript.all_langs>>,
               <<"transcript", transcript.transcript>>,
               <<"url", <<"https://youtube.com/watch?v=">> \o transcript.video_id>>>>)

\* zip_file.writestr(filename, data): the member appended to the archive; it
\* is stamped with the wall-clock time of the call
ZipEntry(filename, data, now) == [filename |-> filename, data |-> data, date_time |-> now]

\* create_transcripts_zip whose member names carry the time of the build
create_transcripts_zip_Stamped(records, format, now) ==
  [k \in 1..Len(records) |->
     ZipEntry(EntryName(sanitize_filename(records[k].title, MaxLength) \o <<now>>,
                        records[k].lang, format),
              IF format = "txt" THEN records[k].transcript
              ELSE RecordJson(records[k]), now)]

\* create_transcripts_zip(transcripts, format): the members of the archive in
\* the order written (the records hold their transcript as a str, so the
\* list branch of the TXT format is not taken); now is the clock writestr reads
create_transcripts_zip(records, format, now) ==
  IF format = "txt"
    THEN [k \in 1..Len(records) |->
            ZipEntry(EntryName(sanitize_filename(records[k].title, MaxLength),
                               records[k].lang, "txt"),
                     records[k].transcript, now)]
  ELSE IF format = "json"
    THEN [k \in 1..Len(records) |->
            ZipEntry(EntryName(sanitize_filename(records[k].title, MaxLength),
                               records[k].lang, "json"),
                     RecordJson(records[k]), now)]
  ELSE <<>>

\* json.dumps(st.session_state.transcripts, ensure_ascii=False, indent=2):
\* each record with its keys in the order the batch loop inserted them
CombinedJson(records) ==
  [k \in 1..Len(records) |->
     JsonObject(<<<<"video_id", records[k].video_id>>,
                  <<"title", records[k].title>>,
                  <<"lang", records[k].lang>>,
                  <<"transcript", records[k].transcript>>,
                  <<"all_langs", records[k].all_langs>>>>)]

RECURSIVE CombinedTxt(_)
\* the combined text document: one block per record
CombinedTxt(records) ==
  IF records = <<>> THEN <<>>
  ELSE LET t == Head(records)
       IN <<"=*80", "\n", "Video ID: ">> \o t.video_id \o <<"\n", "Tytul: ">> \o t.title
          \o <<"\n", "Jezyk: ", t.lang, "\n", "=*80", "\n", "\n">>
          \o t.transcript \o <<"\n", "\n", "\n">>
          \o CombinedTxt(Tail(records))

\* the records a session can hold when its exports are rendered: two videos
\* of the same title and language, a title that sanitizes to the same name,
\* and one of another title and language
ExportRecords ==
  {[video_id |-> <<"A">>, title |-> <<"a">>, lang |-> "en",
    transcript |-> <<"s1", "\n", "s2">>, all_langs |-> <<"en", "pl">>],
   [video_id |-> <<"B">>, title |-> <<"a">>, lang |-> "en",
    transcript |-> <<"s3">>, all_langs |-> <<"en">>],
   [video_id |-> <<"B">>, title |-> <<"a", "?">>, lang |-> "en",
    transcript |-> <<>>, all_langs |-> <<"en">>],
   [video_id |-> <<"B">>, title |-> <<"b", ".">>, lang |-> "pl",
    transcript |-> <<"s3">>, all_langs |-> <<"pl">>]}

\* wall-clock readings
Clock == {1, 2}

ExportInit ==
  /\ transcripts \in SeqsUpTo(ExportRecords, MaxRecords)
  /\ video_ids = <<>>
  /\ analysis_result = None
  /\ handler = "none"
  /\ pc = "idle"
  /\ idx = 0
  /\ videos_to_process = <<>>
  /\ preferred_langs = <<>>
  /\ as_text = TRUE
  /\ availability = None
  /\ listing = <<>>
  /\ filtered = <<>>
  /\ target_date = Cutoff
  /\ events = <<>>
  /\ calls = <<>>
  /\ inflight = {}
  /\ sleeps = 0
  /\ reported = -1
  /\ escaped = FALSE
  /\ max_videos = 0
  /\ outcomes = <<>>
  /\ arg = <<>>
  /\ ret = <<>>

\* a script run with records held renders the four downloads; ret keeps what
\* each run rendered, with the records it read
RenderExports(now) ==
  /\ pc = "idle"
  /\ transcripts # <<>>
  /\ Len(ret) < MaxRenders
  /\ ret' = Append(ret, [records |-> transcripts,
                         json_data |-> CombinedJson(transcripts),
                         txt_data |-> CombinedTxt(transcripts),
                         zip_txt |-> create_transcripts_zip(transcripts, "txt", now),
                         zip_json |-> create_transcripts_zip(transcripts, "json", now)])
  /\ UNCHANGED <<session, handler, pc, idx, batchLocals, filterLocals, events, calls,
                 inflight, sleeps, reported, escaped, outcomes, arg>>

ExportNext == \E now \in Clock : RenderExports(now)
ExportSpec == ExportInit /\ [][ExportNext]_vars

\* --- fetch_video_metadata
\* status codes and bodies the metadata endpoint is studied with
StatusCodes == {200, 201, 204, 301, 400, 401, 404, 429, 500, 503}
MetaBodies ==
  {Raised, <<>>, [title |-> "t1", transcriptLanguages |-> <<"en">>],
   [error |-> "not-found", message |-> "m"]}
MetaArgs ==
  {[video_id |-> v, response |-> r] :
     v \in Ids,
     r \in {Exception} \cup {Response(c, b) : c \in StatusCodes, b \in MetaBodies}}

\* one call of fetch_video_metadata: its single requests.get, then its return
\* value, or the exception that leaves it
MetaCall ==
  /\ pc = "call"
  /\ pc' = "returned"
  /\ calls' = Append(calls, MetaRequest(arg.video_id))
  /\ ret' = fetch_video_metadata(arg.response)
  /\ UNCHANGED <<session, handler, idx, batchLocals, filterLocals, events,
                 inflight, sleeps, reported, escaped, outcomes, arg>>

MetaSpec == StudyInit(MetaArgs) /\ [][MetaCall]_vars

\* ------------------------------------------------------------------ properties
\* a batch run got past its start guard (its window is never empty)
RunStarted == handler = "batch" /\ videos_to_process # <<>>

\* ... and its handler is over, by reaching its end or by an exception
BatchOver == RunStarted /\ pc = "idle"

\* the status events emitted while item i was processed
EventsAt(i) == {k \in DOMAIN events : events[k].at = i}

IsSuccess(e) == e.level = "success"
IsVideoCall(c) == c.endpoint = "video"

RECURSIVE IsSubseq(_, _)
\* a can be obtained from b by deleting elements
IsSubseq(a, b) ==
  IF a = <<>> THEN TRUE
  ELSE IF b = <<>> THEN FALSE
  ELSE IF Head(a) = Head(b) THEN IsSubseq(Tail(a), Tail(b))
  ELSE IsSubseq(a, Tail(b))

\* C1: no exception escapes the batch loop, and when the handler is over every
\* id of the window has been processed (has its answer and its status event),
\* whatever the provider answered for the ids before it.
C1_BatchNeverAborts ==
  RunStarted =>
    /\ ~escaped
    /\ pc = "idle" =>
         /\ Len(outcomes) = Len(videos_to_process)
         /\ \A i \in 1..Len(videos_to_process) : EventsAt(i) # {}

\* C2: when the batch handler is over, every id of the window has exactly one
\* status event; it is the success event of an appended record exactly when
\* the metadata call succeeded, a preferred language was on offer and the
\* transcript call succeeded, and a skip otherwise; the count reported equals
\* the number of records.
C2_OneTerminalStatePerItem ==
  BatchOver =>
    /\ \A i \in 1..Len(videos_to_process) : Cardinality(EventsAt(i)) = 1
    /\ Len(outcomes) = Len(videos_to_process)
    /\ \A i \in 1..Len(videos_to_process) :
         LET e == events[CHOOSE k \in EventsAt(i) : TRUE]
             o == outcomes[i]
         IN /\ e.level \in {"success", "warning"}
            /\ IsSuccess(e) <=>
                 /\ o.meta = "ok"
                 /\ \E l \in 1..Len(preferred_langs) : InList(preferred_langs[l], o.langs)
                 /\ o.trans = "ok"
    /\ Len(transcripts) = Len(SelectSeq(events, IsSuccess))
    /\ reported = Len(transcripts)

\* C3: every skip event of a batch run shows the video id of the skipped item
\* and names the step that failed; a language skip also shows every language
\* the video has.
C3_SkipsCarryDetail ==
  RunStarted =>
    \A k \in DOMAIN events :
      events[k].level = "warning" =>
        /\ events[k].step \in {"metadata", "language", "transcript"}
        /\ "video_id" \in DOMAIN events[k].shows
        /\ events[k].shows.video_id = videos_to_process[events[k].at]
        /\ events[k].step = "language" =>
             /\ "available" \in DOMAIN events[k].shows
             /\ \A l \in 1..Len(outcomes[events[k].at].langs) :
                  InList(outcomes[events[k].at].langs[l], events[k].shows.available)

\* C4: once a handler has resolved a new video-id list, no record of an
\* earlier batch run is held.
Resolved ==
  /\ pc = "idle"
  /\ handler \in {"list_all", "newest", "from_date", "links"}
  /\ video_ids # <<>>
  /\ events # <<>>
  /\ events[Len(events)].level = "success"

C4_ResolutionClearsRecords == Resolved => transcripts = <<>>

\* C6: every record held has its lang among its own all_langs, and among the
\* preferred languages of the run that produced it.
C6_LangAmongAllLangs ==
  \A k \in DOMAIN transcripts :
    /\ InList(transcripts[k].lang, transcripts[k].all_langs)
    /\ RunStarted => InList(transcripts[k].lang, preferred_langs)

C6_Witness ==
  /\ RunStarted
  /\ preferred_langs = <<"en", "pl">>
  /\ \E k \in DOMAIN transcripts :
       transcripts[k].lang = "en" /\ transcripts[k].all_langs = <<"pl", "en">>

\* C7: the records are those of the success events, in the order of the
\* window, which is the first max_videos ids of the list: their ids are a
\* subsequence of the window, and the status events come in window order.
C7_RecordsInInputOrder ==
  RunStarted =>
    LET done == SelectSeq(events, IsSuccess)
    IN /\ videos_to_process = SubSeq(video_ids, 1, max_videos)
       /\ \A j, k \in DOMAIN events : j < k => events[j].at < events[k].at
       /\ Len(done) = Len(transcripts)
       /\ \A k \in DOMAIN transcripts :
            transcripts[k].video_id = videos_to_process[done[k].at]
       /\ IsSubseq([k \in DOMAIN transcripts |-> transcripts[k].video_id],
                   videos_to_process)

C7_Witness ==
  /\ BatchOver
  /\ Len(videos_to_process) = 3
  /\ Len(events) = 3
  /\ events[2].level = "warning"
  /\ Len(transcripts) = 2
  /\ transcripts[1].video_id # transcripts[2].video_id

\* C10: a batch run requests metadata for the ids of its window only, one id
\* after the other in window order and each once; an item's transcript request
\* directly follows its own metadata request; only the latest request can be
\* unanswered; a run that reaches its end has gone through the whole window.
C10_SequentialWindow ==
  RunStarted =>
    LET metaCalls == SelectSeq(calls, IsVideoCall)
    IN /\ videos_to_process = SubSeq(video_ids, 1, max_videos)
       /\ idx \in 1..Len(videos_to_process)
       /\ [k \in DOMAIN metaCalls |-> metaCalls[k].id] = SubSeq(videos_to_process, 1, idx)
       /\ \A p \in DOMAIN calls :
            calls[p].endpoint = "transcript" =>
              p > 1 /\ calls[p - 1] = MetaRequest(calls[p].videoId)
       /\ inflight \subseteq {Len(calls)}
       /\ (pc = "idle" /\ ~escaped) => idx = Len(videos_to_process)

C10_Witness ==
  /\ BatchOver
  /\ ~escaped
  /\ Len(video_ids) > max_videos
  /\ max_videos = 2
  /\ Len(calls) = 4
  /\ videos_to_process[1] # videos_to_process[2]

\* C5: check_transcript_availability returns None for a missing (falsy)
\* metadata; otherwise, with the metadata's languages as all_langs, the first
\* language of preferred_langs that occurs among them, or available = False
\* and no language when none occurs.
C5_FirstPreferredMatch ==
  pc = "returned" /\ "preferred_langs" \in DOMAIN arg =>
    LET p == arg.preferred_langs
        m == arg.metadata
        offered == IF "transcriptLanguages" \in DOMAIN m
                     THEN m.transcriptLanguages ELSE <<>>
        matches == {i \in 1..Len(p) : InList(p[i], offered)}
    IN IF m = None \/ DOMAIN m = {} THEN ret = None
       ELSE /\ ret # None
            /\ ret.all_langs = offered
            /\ IF matches = {}
                 THEN ~ret.available /\ ret.lang = NoneLang
                 ELSE /\ ret.available
                      /\ \E i \in matches :
                           /\ ret.lang = p[i]
                           /\ \A j \in 1..(i - 1) : ~InList(p[j], offered)

C5_Witness ==
  /\ pc = "returned"
  /\ "preferred_langs" \in DOMAIN arg
  /\ arg.preferred_langs = <<"en", "pl">>
  /\ arg.metadata = [title |-> "t1", transcriptLanguages |-> <<"pl", "en">>]
  /\ ret.lang = "en"

\* the text after the first occurrence of marker in s
AfterFirst(s, marker) ==
  LET ps == {i \in 1..(Len(s) - Len(marker) + 1) :
               SubSeq(s, i, i + Len(marker) - 1) = marker}
      p == CHOOSE i \in ps : \A j \in ps : i <= j
  IN SubSeq(s, p + Len(marker), Len(s))

\* the id a string of a supported URL shape carries: the value of v up to the
\* next '&' after 'youtube.com/watch?v=', else the path segment up to '?'
\* after 'youtu.be/'
CarriedId(url) ==
  IF Contains(url, WatchMarker) THEN SplitFirst(AfterFirst(url, WatchMarker), "N")
  ELSE SplitFirst(AfterFirst(url, ShortMarker), "Q")

\* C8: extract_video_id returns exactly ID for a string containing
\* 'youtube.com/watch?v=ID' or 'youtu.be/ID' (stated here for the strings whose
\* ID is one of the two 11-character video ids), the string itself when it is
\* a bare 11-character id, and None for a string of no supported shape.
C8_ResolveReturnsId ==
  pc = "returned" /\ arg \in ExtractArgs =>
    IF Contains(arg, WatchMarker) \/ Contains(arg, ShortMarker)
      THEN CarriedId(arg) \in Ids => ret = CarriedId(arg)
    ELSE IF StrLen(arg) = IdLength THEN ret = arg
    ELSE ret = NoneStr

\* the k-th smallest element of a set of numbers
KthSmallest(S, k) == CHOOSE x \in S : Cardinality({y \in S : y < x}) = k - 1

\* the metadata request answered by response yields a video uploaded on or
\* after the day date
UploadedSince(response, date) ==
  /\ MetaSucceeded(response)
  /\ "uploadDate" \in DOMAIN response.json
  /\ Len(response.json.uploadDate) = 4
  /\ LET u == response.json.uploadDate
     IN u[1] * 10000 + u[2] * 100 + u[3] >= date[1] * 10000 + date[2] * 100 + date[3]

\* C9: filter_by_date requests the metadata of the first 50 ids only and
\* returns, in input order, the entries of exactly those among them whose
\* metadata was fetched with an upload day on or after the cutoff.
C9_FilterSince ==
  pc = "returned" /\ "target_date" \in DOMAIN arg =>
    LET ids == arg.video_ids
        head == 1..Min(Len(ids), FilterCap)
        kept == {i \in head : UploadedSince(arg.responses[i], arg.target_date)}
    IN /\ ret.fetched = SubSeq(ids, 1, Min(Len(ids), FilterCap))
       /\ Len(ret.filtered) = Cardinality(kept)
       /\ \A k \in 1..Len(ret.filtered) :
            LET i == KthSmallest(kept, k)
                u == arg.responses[i].json.uploadDate
            IN /\ ret.filtered[k].id = ids[i]
               /\ ret.filtered[k].date = <<u[1], u[2], u[3], "">>

C9_Witness ==
  /\ pc = "returned"
  /\ "target_date" \in DOMAIN arg
  /\ Len(arg.video_ids) > FilterCap
  /\ UploadedSince(arg.responses[FilterCap + 1], arg.target_date)
  /\ ~UploadedSince(arg.responses[FilterCap], arg.target_date)
  /\ arg.responses[FilterCap].kind = "response"
  /\ arg.responses[FilterCap].status_code = 200
  /\ Len(ret.filtered) > 0
  /\ \A k \in 1..Len(ret.filtered) : ret.filtered[k].date = <<2024, 1, 1, "">>

\* C11: time.sleep has been called once for every item of the batch run whose
\* processing is over, whatever its outcome: an item's metadata request is
\* issued after exactly one delay per item before it, and when the handler is
\* over every item whose metadata was requested has had its delay.
C11_DelayAfterEveryItem ==
  RunStarted =>
    LET requested == Len(SelectSeq(calls, IsVideoCall))
    IN sleeps = IF pc = "idle" THEN requested ELSE requested - 1

\* a control character: \x00-\x1f, \x7f or \x80-\x9f
ControlChar(c) == c \in C0Controls \cup OtherControls
Kept(c) == c \notin ReservedChars /\ ~ControlChar(c)

\* C12: the sanitized name is what remains of the title after removing every
\* control and reserved character, collapsing each white-space run to one
\* space, trimming spaces and dots at both ends and cutting at 200
\* characters, or 'untitled' when nothing remains; it is never empty, never
\* longer than 200 characters and holds no reserved or control character.
C12_SanitizedBaseName ==
  pc = "returned" /\ arg \in SanitizeArgs =>
    LET trimmed == Strip(CollapseSpaces(SelectSeq(arg, Kept)), {" ", "."})
        capped == SubSeq(trimmed, 1, Min(Len(trimmed), MaxLength))
    IN /\ ret = IF capped = <<>> THEN Untitled ELSE capped
       /\ ret # <<>>
       /\ Len(ret) <= MaxLength
       /\ \A i \in 1..Len(ret) : ret[i] \notin ReservedChars /\ ~ControlChar(ret[i])

\* C19: the sanitized name neither starts nor ends with a space or a dot.
C19_NoEdgeSpaceOrDot ==
  pc = "returned" /\ arg \in SanitizeArgs =>
    /\ ret # <<>>
    /\ ret[1] \notin {" ", "."}
    /\ ret[Len(ret)] \notin {" ", "."}

\* an archive without the time stamps of its members
Unstamped(archive) ==
  [k \in 1..Len(archive) |-> [filename |-> archive[k].filename, data |-> archive[k].data]]

ReadEntry(archive, name) ==
  LET named == {k \in 1..Len(archive) : archive[k].filename = name}
  IN archive[CHOOSE k \in named : \A m \in named : m <= k].data

\* the archive of the given format has one member per record, named
\* '<safe title>_transcript_<lang>.<ext>', and reading a record's member
\* gives that record's content
OneEntryPerRecord(archive, ext) ==
  /\ Len(archive) = Len(transcripts)
  /\ \A k \in 1..Len(transcripts) :
       LET name == EntryName(sanitize_filename(transcripts[k].title, MaxLength),
                             transcripts[k].lang, ext)
       IN /\ archive[k].filename = name
          /\ ReadEntry(archive, name) =
               IF ext = "txt" THEN transcripts[k].transcript
               ELSE RecordJson(transcripts[k])

\* C14: each archive rendered has exactly one member per record held, under
\* the record's name and with the extension of the format, and every
\* record's content can be read back from its member, also when two records
\* have the same title and language.
C14_OneEntryPerRecord ==
  \A i \in DOMAIN ret :
    /\ OneEntryPerRecord(ret[i].zip_txt, "txt")
    /\ OneEntryPerRecord(ret[i].zip_json, "json")

\* the value is a failure that carries the status code and the body of the
\* response
CarriesFailure(value, response) ==
  /\ "status_code" \in DOMAIN value
  /\ value.status_code = response.status_code
  /\ "body" \in DOMAIN value
  /\ value.body = response.json

\* C15: one call of fetch_video_metadata issues exactly one request, and for
\* a response whose status is not 2xx it returns, without raising, a failure
\* value that carries the status code and the body of the response.
C15_FailureCarriesStatus ==
  pc = "returned" /\ arg \in MetaArgs =>
    /\ calls = <<MetaRequest(arg.video_id)>>
    /\ (arg.response.kind = "response" /\ arg.response.status_code \notin 200..299) =>
         /\ ret # Raised
         /\ CarriesFailure(ret.value, arg.response)

\* the flat strings the transcript endpoint's contents amount to
FlatContents == {<<"s1", "\n", "s2">>, <<>>}

\* C16: no exception leaves the transcript step of a batch run; an item whose
\* transcript call raised, answered another status than 200 or carried a
\* malformed segment is reported as a transcript skip and gets no record; and
\* every record holds its content as one flat string, the segments' texts
\* joined by newlines, with as_text set or not.
C16_TranscriptNeverRaises ==
  RunStarted =>
    /\ escaped => outcomes[Len(outcomes)].trans = "none"
    /\ \A i \in DOMAIN outcomes :
         (outcomes[i].trans = "failed" /\ (i < idx \/ pc = "idle")) =>
           /\ \E k \in EventsAt(i) : events[k].step = "transcript"
           /\ \A k \in EventsAt(i) : ~IsSuccess(events[k])
    /\ \A k \in DOMAIN events :
         events[k].step = "transcript" => outcomes[events[k].at].trans = "failed"
    /\ \A k \in DOMAIN transcripts : transcripts[k].transcript \in FlatContents

C16_Witness ==
  /\ BatchOver
  /\ ~as_text
  /\ Len(events) = 3
  /\ events[1].step = "transcript"
  /\ events[2].step = "recorded"
  /\ events[3].step = "transcript"
  /\ Len(transcripts) = 1
  /\ transcripts[1].transcript = <<"s1", "\n", "s2">>

\* processing the item answered by response raises inside the date filter's
\* try block: the HTTP call or the decoding of its body raises, or the
\* metadata has no uploadDate or one that is no date
PerItemFailure(response) ==
  \/ response.kind = "exception"
  \/ response.kind = "response" /\ response.status_code = 200 /\ response.json = Raised
  \/ /\ MetaSucceeded(response)
     /\ \/ "uploadDate" \notin DOMAIN response.json
        \/ strptime(First10(response.json.uploadDate)) = Raised

Passes(item) == ~PerItemFailure(item.response)

\* C17: filter_by_date returns a list, raises nothing and reports nothing; it
\* requests the metadata of each of the first 50 ids exactly once, whatever
\* fails; and its result is the one it returns for the same ids without the
\* items that raised: the entries retained before a failure are kept and the
\* ids after it are still filtered.
C17_FilterSwallowsFailures ==
  pc = "returned" /\ "target_date" \in DOMAIN arg =>
    LET n == Min(Len(arg.video_ids), FilterCap)
        items == [i \in 1..n |-> [id |-> arg.video_ids[i], response |-> arg.responses[i]]]
        passing == SelectSeq(items, Passes)
        others == FilterRun([k \in 1..Len(passing) |-> passing[k].response],
                            [k \in 1..Len(passing) |-> passing[k].id],
                            arg.target_date)
    IN /\ ret.fetched = SubSeq(arg.video_ids, 1, n)
       /\ DOMAIN ret.filtered = 1..Len(ret.filtered)
       /\ ret.filtered = others.filtered
       /\ events = <<>>
       /\ ~escaped

C17_Witness ==
  /\ pc = "returned"
  /\ "target_date" \in DOMAIN arg
  /\ Len(arg.video_ids) >= FilterCap
  /\ UploadedSince(arg.responses[1], arg.target_date)
  /\ arg.responses[2].kind = "exception"
  /\ UploadedSince(arg.responses[3], arg.target_date)
  /\ Len(ret.filtered) = FilterCap \div 2
  /\ Len(ret.fetched) = FilterCap

\* the ids of the window whose processing is over
ProcessedCount == IF pc = "idle" THEN Len(outcomes) ELSE idx - 1

\* C18: at every point of a batch run the records held are at most as many as
\* the ids of the window processed so far, hence at most min(max_videos,
\* number of ids); no record held stems from an earlier run.
C18_RecordsWithinWindow ==
  RunStarted =>
    /\ Len(transcripts) <= ProcessedCount
    /\ ProcessedCount <= Len(videos_to_process)
    /\ Len(videos_to_process) = Min(max_videos, Len(video_ids))
    /\ Len(transcripts) = Len(SelectSeq(events, IsSuccess))

C18_Witness ==
  /\ BatchOver
  /\ max_videos = 2
  /\ Len(video_ids) = 3
  /\ Len(transcripts) = 2
  /\ \A k \in DOMAIN transcripts : transcripts[k] # StaleRecord

\* the window position of the item the p-th request of the run belongs to
ItemOf(p) == Len(SelectSeq(SubSeq(calls, 1, p), IsVideoCall))

\* the requests of the run made for the item at window position i
RequestsOf(i) == {p \in DOMAIN calls : ItemOf(p) = i}

\* a preferred language is among the languages the item's metadata lists
Selectable(o) ==
  o.meta = "ok" /\ \E l \in 1..Len(preferred_langs) : InList(preferred_langs[l], o.langs)

\* C20: each id of the window reached so far has caused exactly one metadata
\* request and at most one transcript request; a transcript request is made
\* only once the item's metadata call has succeeded, for the item's own id and
\* for a language that is both preferred and listed by that metadata; an item
\* whose metadata failed or lists no preferred language causes none.
C20_RequestsPerItem ==
  RunStarted =>
    /\ \A i \in 1..idx :
         LET meta == {p \in RequestsOf(i) : IsVideoCall(calls[p])}
             trans == RequestsOf(i) \ meta
         IN /\ Cardinality(meta) = 1
            /\ \A p \in meta : calls[p] = MetaRequest(videos_to_process[i])
            /\ Cardinality(trans) <= 1
            /\ \A p \in trans :
                 /\ i <= Len(outcomes)
                 /\ outcomes[i].meta = "ok"
                 /\ calls[p].videoId = videos_to_process[i]
                 /\ InList(calls[p].lang, preferred_langs)
                 /\ InList(calls[p].lang, outcomes[i].langs)
            /\ i <= Len(outcomes) =>
                 /\ ~Selectable(outcomes[i]) => trans = {}
                 /\ Selectable(outcomes[i]) => Cardinality(trans) = 1
    /\ \A p \in DOMAIN calls : ItemOf(p) \in 1..idx

C20_Witness ==
  /\ BatchOver
  /\ preferred_langs = <<"en", "pl">>
  /\ Len(outcomes) = 3
  /\ outcomes[1].meta = "failed"
  /\ outcomes[2].meta = "ok" /\ outcomes[2].langs = <<"de", "fr">>
  /\ outcomes[3].langs = <<"pl">>
  /\ Len(calls) = 4
  /\ calls[4].lang = "pl"

\* C21: a click on the batch button that is rejected for a missing API key or
\* a missing language only shows its error: no provider request is issued and
\* transcripts, video_ids and analysis_result stay as they were (a click on
\* the batch button that ends at once is such a rejection).
C21_RejectedStartHasNoEffect ==
  [][(pc = "idle" /\ handler' = "batch" /\ pc' = "idle") =>
       /\ events' \in {<<Event("error", "api_key", 0, <<>>)>>,
                       <<Event("error", "language", 0, <<>>)>>}
       /\ calls' = <<>>
       /\ inflight' = {}
       /\ transcripts' = transcripts
       /\ video_ids' = video_ids
       /\ analysis_result' = analysis_result]_vars

C21_Witness ==
  /\ handler = "batch"
  /\ pc = "idle"
  /\ events = <<Event("error", "language", 0, <<>>)>>
  /\ calls = <<>>
  /\ transcripts # <<>>
  /\ video_ids # <<>>
  /\ analysis_result # None

\* the handlers of the channel modes
ChannelHandlers == {"list_all", "newest", "from_date"}

\* C22: a step of a channel-mode handler changes video_ids only when it ends
\* the handler with its success message: after a listing call that answered
\* another status than 200 (or returned nothing usable, or raised), and after
\* a from-date filter that retained no id, video_ids is what the previous
\* resolution stored.
C22_FailedResolutionKeepsIds ==
  [][(handler' \in ChannelHandlers /\ video_ids' # video_ids) =>
       /\ pc' = "idle"
       /\ events' # <<>>
       /\ events'[Len(events')].level = "success"
       /\ handler' = "from_date" => video_ids' # <<>>]_vars

C22_Witness ==
  /\ handler = "from_date"
  /\ pc = "idle"
  /\ events # <<>>
  /\ events[Len(events)] = Event("warning", "none_found", 0, <<>>)
  /\ Len(calls) > 1
  /\ video_ids # <<>>

\* C23: analysis_result changes only in a successful analysis step, to the
\* parsed answer, or to None in the step of the listing handler that calls
\* clear_results; a step that starts a batch run empties transcripts and
\* keeps analysis_result; a failed analysis keeps both.
C23_AnalysisResultFrame ==
  [][/\ analysis_result' # analysis_result =>
          \/ /\ handler' = "analyze"
             /\ events' = <<Event("success", "analysis", 0, <<>>)>>
             /\ \E result \in AnalysisResults :
                  result.success /\ analysis_result' = result.data
          \/ /\ handler' = "list_all"
             /\ pc = "idle" /\ pc' = "channel_wait"
             /\ analysis_result' = None
             /\ transcripts' = <<>>
     /\ (pc = "idle" /\ handler' = "batch" /\ pc' = "meta_wait") =>
          transcripts' = <<>> /\ analysis_result' = analysis_result
     /\ (pc = "idle" /\ handler' = "analyze"
           /\ events' = <<Event("error", "analysis", 0, <<>>)>>) =>
          transcripts' = transcripts /\ analysis_result' = analysis_result]_vars

C23_Witness ==
  /\ handler = "analyze"
  /\ pc = "idle"
  /\ events = <<Event("error", "analysis", 0, <<>>)>>
  /\ analysis_result = [overall_summary |-> "s"]
  /\ transcripts # <<>>

====
